---- MODULE Spec2Model ----
(***************************************************************************)
(* ScreenMonitorClient (src/main.py): a discord.py client whose periodic   *)
(* task check_screen_change captures the screen, compares the capture with *)
(* the retained previous capture (detect_motion) and, when they differ,    *)
(* uploads the capture to a channel.                                       *)
(*                                                                         *)
(* A tick is modelled in the steps its awaits cut it into: the synchronous *)
(* prefix (capture, seeding or comparison), the return of fetch_channel    *)
(* and the return of channel.send.                                         *)
(***************************************************************************)
EXTENDS Integers, Sequences, FiniteSets, TLC

\* ---------------------------------------------------------------- bounds
\* Number of distinct uuid4 values capture_screen may draw.
MaxPaths == 4
\* Dimensions of the screens in the catalogue of captures.
ScreenH == 160
ScreenW == 160
\* Side of the white square of the third catalogue screen.
PatchSide == 20
\* Most iterations of the loop that may be overdue at once.
MaxOverdue == 2
\* Largest height and width of the small samples detect_motion is examined on.
MaxDim == 2
\* Largest pixel_diff_threshold detect_motion is examined with.
MaxThreshold == 4

\* ------------------------------------------------------- program constants
PIXEL_DIFF_THRESHOLD == 25000

\* Optional[str] None of previous_screenshot; a path is a non-empty tuple.
None == << >>

\* ------------------------------------------------------------ pixel grids
\* A decoded image is [h, w, px] with px[r][c] the element at row r, column c:
\* a <<b, g, r>> triple after imread, a number 0..255 after cvtColor.
RECURSIVE Span(_, _, _)
Span(f, lo, hi) ==
    IF lo > hi THEN << >>
    ELSE IF lo = hi THEN << f[lo] >>
    ELSE LET mid == (lo + hi) \div 2
         IN  Span(f, lo, mid) \o Span(f, mid + 1, hi)

\* The h x w array whose element (r, c) is f[r][c].
Grid(h, w, f) ==
    [h |-> h, w |-> w, px |-> Span([r \in 1..h |-> Span(f[r], 1, w)], 1, h)]

Abs(a) == IF a < 0 THEN -a ELSE a
Min(a, b) == IF a < b THEN a ELSE b

\* cv2.COLOR_BGR2GRAY on 8-bit data: Y = 0.299 R + 0.587 G + 0.114 B in
\* 15-bit fixed point, rounded.
cvtColor(image) ==
    Grid(image.h, image.w,
         [r \in 1..image.h |-> [c \in 1..image.w |->
            LET p == image.px[r][c]
            IN  (p[1] * 3735 + p[2] * 19235 + p[3] * 9798 + 16384) \div 32768]])

\* Source position and weight (in 1/2048) of destination index d (0-based)
\* when n source elements are resampled to m: cv2.resize, INTER_LINEAR.
LinearTap(d, n, m) ==
    LET num == (2 * d + 1) * n - m
        den == 2 * m
        s0  == IF num < 0 THEN -1 ELSE num \div den
    IN  IF s0 < 0 THEN [s |-> 0, a |-> 0]
        ELSE IF s0 >= n - 1 THEN [s |-> n - 1, a |-> 0]
        ELSE [s |-> s0, a |-> ((num - s0 * den) * 4096 + den) \div (2 * den)]

\* cv2.resize(gray, (w, h)): bilinear resampling to h rows and w columns.
resize(gray, w, h) ==
    LET row(sy, c) ==
            LET t == LinearTap(c - 1, gray.w, w)
            IN  gray.px[sy + 1][t.s + 1] * (2048 - t.a)
                  + gray.px[sy + 1][Min(t.s + 1, gray.w - 1) + 1] * t.a
    IN  Grid(h, w,
             [r \in 1..h |-> [c \in 1..w |->
                LET v == LinearTap(r - 1, gray.h, h)
                    b0 == row(v.s, c)
                    b1 == row(Min(v.s + 1, gray.h - 1), c)
                IN  ((((2048 - v.a) * (b0 \div 16)) \div 65536)
                       + ((v.a * (b1 \div 16)) \div 65536) + 2) \div 4]])

\* The 5-tap Gaussian kernel cv2 uses for ksize 5 with sigma 0, in 1/16.
GaussianKernel == << 1, 4, 6, 4, 1 >>

\* BORDER_REFLECT_101 (the default border of GaussianBlur): index i of 1..n.
RECURSIVE Reflect101(_, _)
Reflect101(i, n) ==
    IF n = 1 THEN 1
    ELSE IF i < 1 THEN Reflect101(2 - i, n)
    ELSE IF i > n THEN Reflect101(2 * n - i, n)
    ELSE i

\* cv2.GaussianBlur(gray, (5, 5), 0): separable, rounded once at the end.
GaussianBlur(gray) ==
    LET horiz == Grid(gray.h, gray.w,
                   [r \in 1..gray.h |-> [c \in 1..gray.w |->
                      LET t(k) == GaussianKernel[k]
                                    * gray.px[r][Reflect101(c + k - 3, gray.w)]
                      IN  t(1) + t(2) + t(3) + t(4) + t(5)]]).px
    IN  Grid(gray.h, gray.w,
             [r \in 1..gray.h |-> [c \in 1..gray.w |->
                LET t(k) == GaussianKernel[k]
                              * horiz[Reflect101(r + k - 3, gray.h)][c]
                IN  (t(1) + t(2) + t(3) + t(4) + t(5) + 128) \div 256]])

\* cv2.absdiff of two grids of equal shape.
absdiff(a, b) ==
    Grid(a.h, a.w,
         [r \in 1..a.h |-> [c \in 1..a.w |-> Abs(a.px[r][c] - b.px[r][c])]])

\* cv2.threshold(diff, thresh, maxval, THRESH_BINARY).
threshold(diff, thresh, maxval) ==
    Grid(diff.h, diff.w,
         [r \in 1..diff.h |-> [c \in 1..diff.w |->
            IF diff.px[r][c] > thresh THEN maxval ELSE 0]])

\* np.count_nonzero.
count_nonzero(a) ==
    Cardinality({p \in (1..a.h) \X (1..a.w) : a.px[p[1]][p[2]] # 0})

\* Mutant of resized: the target size is given as (rows, columns).
resized_transposed(gray1, gray2) ==
    IF gray1.h # gray2.h \/ gray1.w # gray2.w
    THEN resize(gray2, gray1.h, gray1.w)
    ELSE gray2

\* Lines 76-77: gray2 after "if gray1.shape != gray2.shape: gray2 =
\* cv2.resize(gray2, (gray1.shape[1], gray1.shape[0]))".
resized(gray1, gray2) ==
    IF gray1.h # gray2.h \/ gray1.w # gray2.w
    THEN resize(gray2, gray1.w, gray1.h)
    ELSE gray2

\* Lines 71-90 of detect_motion: the number of differing pixels of two
\* decoded images, or -1 when cv2.absdiff is handed grids of different
\* shapes and raises cv2.error.
DifferingPixels(image1, image2) ==
    LET gray1 == cvtColor(image1)
        gray2 == resized(gray1, cvtColor(image2))
        gray1_blur == GaussianBlur(gray1)
        gray2_blur == GaussianBlur(gray2)
    IN  IF gray1_blur.h # gray2_blur.h \/ gray1_blur.w # gray2_blur.w
        THEN -1
        ELSE count_nonzero(threshold(absdiff(gray1_blur, gray2_blur), 25, 255))

\* ------------------------------------------------------ captured screens
Solid(colour) ==
    Grid(ScreenH, ScreenW, [r \in 1..ScreenH |-> [c \in 1..ScreenW |-> colour]])

\* The screens sct.shot may see: all black, all white, and black with a
\* small white square in the top-left corner.
Screens ==
    << Solid(<< 0, 0, 0 >>),
       Solid(<< 255, 255, 255 >>),
       Grid(ScreenH, ScreenW,
            [r \in 1..ScreenH |-> [c \in 1..ScreenW |->
               IF r <= PatchSide /\ c <= PatchSide
               THEN << 255, 255, 255 >> ELSE << 0, 0, 0 >>]]) >>

\* What a sample file holds: the index of a screen, or 0 for bytes that
\* cv2.imread cannot decode.
Shots == 0..Len(Screens)

\* non_zero_count of every pair of catalogue screens (line 90).
NonZeroCount ==
    Span([i \in 1..Len(Screens) |->
            Span([j \in 1..Len(Screens) |->
                    DifferingPixels(Screens[i], Screens[j])],
                 1, Len(Screens))],
         1, Len(Screens))

\* The concatenation of the sequences f[lo], ..., f[hi].
RECURSIVE Flat(_, _, _)
Flat(f, lo, hi) ==
    IF lo > hi THEN << >>
    ELSE IF lo = hi THEN f[lo]
    ELSE LET mid == (lo + hi) \div 2
         IN  Flat(f, lo, mid) \o Flat(f, mid + 1, hi)

\* The h x w image whose first k elements, row by row, have grey level v and
\* whose other elements are black.
Sample(h, w, k, v) ==
    Grid(h, w, [r \in 1..h |-> [c \in 1..w |->
        IF (r - 1) * w + c <= k THEN << v, v, v >> ELSE << 0, 0, 0 >>]])

\* Small decoded images of every shape up to MaxDim x MaxDim: black, uniform
\* at and just above the per-element threshold 25 of line 87, and white in
\* the first k elements for every k.
Samples ==
    Flat([h \in 1..MaxDim |->
            Flat([w \in 1..MaxDim |->
                    << Sample(h, w, 0, 0),
                       Sample(h, w, h * w, 25),
                       Sample(h, w, h * w, 26) >> \o
                    Span([k \in 1..(h * w) |-> Sample(h, w, k, 255)],
                         1, h * w)],
                 1, MaxDim)],
         1, MaxDim)

\* What a file holding a small sample holds: its place after the screens.
SampleShots == {Len(Screens) + i : i \in 1..Len(Samples)}

\* The image cv2.imread decodes from a file holding shot s (s # 0).
Pixels(s) == IF s <= Len(Screens) THEN Screens[s] ELSE Samples[s - Len(Screens)]

\* f"current_screen{uuid.uuid4()}.png"
Paths == {<< "current_screen", u, ".png" >> : u \in 1..MaxPaths}

\* ------------------------------------------------------------------ state
VARIABLES
    previous_screenshot,  \* self.previous_screenshot: a path or None
    disk,                 \* the sample files that exist: path -> shot
    task,                 \* the tasks.loop task: unstarted, running, failed, cancelled
    pc,                   \* where the tick in flight is suspended: idle, fetching, sending
    current_screenshot,   \* the local current_screenshot of the tick in flight
    tick,                 \* record of the latest tick: what it started from and did
    overdue,              \* iterations of the loop whose scheduled time has passed
                          \* and that have not begun
    comparison            \* a call of detect_motion examined on its own: its
                          \* arguments and its outcome

vars == << previous_screenshot, disk, task, pc, current_screenshot, tick,
           overdue, comparison >>

\* os.path.exists(path)
exists(d, path) == path \in DOMAIN d

\* if os.path.exists(path): os.remove(path)
remove(d, path) == [q \in DOMAIN d \ {path} |-> d[q]]

\* sct.shot(output=path) writing shot
shot(d, path, s) == [q \in DOMAIN d \cup {path} |-> IF q = path THEN s ELSE d[q]]

\* cv2.imread(path): the index of the decoded screen, 0 for None.
imread(d, path) == IF exists(d, path) THEN d[path] ELSE 0

\* Mutant of significant: a count equal to the threshold is significant.
significant_at_threshold(non_zero_count, pixel_diff_threshold) ==
    non_zero_count >= pixel_diff_threshold

\* Line 96: return non_zero_count > pixel_diff_threshold
significant(non_zero_count, pixel_diff_threshold) ==
    non_zero_count > pixel_diff_threshold

\* detect_motion(image_path1, image_path2, pixel_diff_threshold) over the
\* files d: the exception raised ("" for none) and the value returned.
detect_motion(d, image_path1, image_path2, pixel_diff_threshold) ==
    LET image1 == imread(d, image_path1)
        image2 == imread(d, image_path2)
    IN  IF image1 = 0 \/ image2 = 0
        THEN [exc |-> "ValueError", ret |-> FALSE]
        ELSE LET non_zero_count ==
                     IF image1 <= Len(Screens) /\ image2 <= Len(Screens)
                     THEN NonZeroCount[image1][image2]
                     ELSE DifferingPixels(Pixels(image1), Pixels(image2))
             IN  IF non_zero_count < 0
                 THEN [exc |-> "cv2.error", ret |-> FALSE]
                 ELSE [exc |-> "",
                       ret |-> significant(non_zero_count, pixel_diff_threshold)]

\* Mutant of detect_motion_files: a file that cannot be decoded is removed.
detect_motion_files_drops_unreadable(d, image_path1, image_path2) ==
    [q \in {p \in DOMAIN d : p \notin {image_path1, image_path2} \/ d[p] # 0}
        |-> d[q]]

\* Lines 46-96: the files after a call of detect_motion; it opens its two
\* arguments for reading only.
detect_motion_files(d, image_path1, image_path2) == d

\* Mutant of is_first: the seeding branch is never taken.
is_first_never(prev) == FALSE

\* Line 107: the tick is the seeding tick.
is_first(prev) == prev = None

\* Lines 107-108: the first capture becomes the baseline.
seed(prev, d, cur) == [previous |-> cur, disk |-> d]

\* Mutant of rotate: the old baseline's file is not removed.
rotate_keeps_file(prev, d, cur) == [previous |-> cur, disk |-> d]

\* Lines 143-148: drop the old baseline's file, keep the capture as baseline.
rotate(prev, d, cur) == [previous |-> cur, disk |-> remove(d, prev)]

\* Mutant of except_block: the handler rotates the baseline as the success
\* path does.
except_block_adopts_capture(prev, d, cur) ==
    [previous |-> cur, disk |-> remove(d, prev)]

\* Mutant of except_block: the handler also forgets the baseline.
except_block_clears_baseline(prev, d, cur) ==
    [previous |-> None, disk |-> remove(d, cur)]

\* Mutant of except_block: the handler removes the baseline's file instead of
\* the capture's.
except_block_removes_baseline(prev, d, cur) ==
    [previous |-> prev, disk |-> remove(d, prev)]

\* Lines 149-153: the except block removes the capture's file.
except_block(prev, d, cur) == [previous |-> prev, disk |-> remove(d, cur)]

\* Line 149: the exceptions the except clause catches.
Caught == {"ValueError", "PermissionError", "ConnectionError"}

\* Lines 117-129 and 138-139: what the await of fetch_channel can produce and
\* the exception the tick raises for it ("" when a channel is returned).
FetchOutcomes ==
    {"channel", "None", "NotFound", "Forbidden", "HTTPException"}

\* Mutant of fetch_raises: the clause for discord.HTTPException is missing.
fetch_raises_http_unconverted(outcome) ==
    CASE outcome = "channel"       -> ""
      [] outcome = "None"          -> "ValueError"
      [] outcome = "NotFound"      -> "ValueError"
      [] outcome = "Forbidden"     -> "PermissionError"
      [] outcome = "HTTPException" -> "HTTPException"

fetch_raises(outcome) ==
    CASE outcome = "channel"       -> ""
      [] outcome = "None"          -> "ValueError"
      [] outcome = "NotFound"      -> "ValueError"
      [] outcome = "Forbidden"     -> "PermissionError"
      [] outcome = "HTTPException" -> "ConnectionError"

\* Mutant of attachment: the retained sample is uploaded.
attachment_previous(prev, cur) == prev

\* Lines 132-133: the file opened for the upload is the capture.
attachment(prev, cur) == cur

\* Lines 134-136: what the await of channel.send can produce: delivery, a
\* discord.HTTPException, or a ConnectionError of the socket.
SendOutcomes == {"sent", "HTTPException", "ConnectionError"}

send_raises(outcome) == IF outcome = "sent" THEN "" ELSE outcome

\* Record of a tick: the baseline and files it started from, its capture,
\* the calls it made in order, the file it handed to channel.send and whether
\* the send returned, what detect_motion said (and the paths it could not
\* load), the step that failed and why, and how it ended.
\* overlap: the tick began while another execution was suspended.
NewTick ==
    [prev0 |-> previous_screenshot, files0 |-> DOMAIN disk, cur |-> None,
     calls |-> << "capture_screen" >>, sent |-> None, delivered |-> FALSE,
     motion |-> "",
     unreadable |-> {}, failed |-> "", cause |-> "", exc |-> "",
     outcome |-> "open", overlap |-> pc # "idle"]

\* No call of detect_motion is under examination.
NoComparison == [state |-> "none"]

Init ==
    /\ previous_screenshot = None
    /\ disk = << >>
    /\ task = "unstarted"
    /\ pc = "idle"
    /\ current_screenshot = None
    /\ tick = [NewTick EXCEPT !.calls = << >>, !.outcome = "none"]
    /\ overdue = 0
    /\ comparison = NoComparison

\* check_screen_change returns or raises: st is the baseline and files it
\* leaves, tk the state of the loop task, t the record of the tick.
EndTick(st, tk, t) ==
    /\ previous_screenshot' = st.previous
    /\ disk' = st.disk
    /\ task' = tk
    /\ pc' = "idle"
    /\ current_screenshot' = None
    /\ tick' = t

\* Line 98, discord.ext.tasks: an exception that leaves the coroutine ends
\* the loop task.
Escapes(exc, d, t) ==
    EndTick([previous |-> previous_screenshot, disk |-> d], "failed",
            [t EXCEPT !.exc = exc, !.outcome = "escaped"])

\* exc is raised inside the try block (lines 106-148) with capture cur.
Raised(exc, d, cur, t) ==
    IF exc \in Caught
    THEN EndTick(except_block(previous_screenshot, d, cur), task,
                 [t EXCEPT !.exc = exc, !.outcome = "handled"])
    ELSE Escapes(exc, d, t)

\* ---------------------------------------------------------------- actions
\* on_ready (lines 155-163): start() launches the loop task unless it is
\* running, in which case start() raises and nothing changes.
\* The first iteration of a launched loop is due at once.
on_ready ==
    /\ task # "cancelled"
    /\ task' = "running"
    /\ overdue' = IF task = "running" THEN overdue ELSE 1
    /\ UNCHANGED << previous_screenshot, disk, pc, current_screenshot, tick,
                    comparison >>

\* Line 98, tasks.loop(seconds=CHECK_INTERVAL): one task awaits the coroutine
\* and then sleeps until the next scheduled iteration, so an iteration begins
\* only when none is in progress and its scheduled time has passed.
loop_ready == task = "running" /\ pc = "idle" /\ overdue >= 1

\* CHECK_INTERVAL seconds pass (lines 14 and 98): one more iteration of the
\* schedule, which advances by CHECK_INTERVAL from the previous scheduled
\* time, becomes due.  An idle loop begins a due iteration before more time
\* passes.
interval_elapses ==
    /\ task = "running"
    /\ pc # "idle" \/ overdue = 0
    /\ overdue < MaxOverdue
    /\ overdue' = overdue + 1
    /\ UNCHANGED << previous_screenshot, disk, task, pc, current_screenshot,
                    tick, comparison >>

\* check_screen_change from its start to its first await or its end
\* (lines 105-117 and 140-153).
check_screen_change ==
    /\ loop_ready
    /\ overdue' = overdue - 1
    /\ UNCHANGED comparison
    /\ \/ Escapes("ScreenShotError", disk,
                  [NewTick EXCEPT !.failed = "capture", !.cause = "ScreenShotError"])
       \/ \E path \in Paths \ (DOMAIN disk \cup {previous_screenshot}), s \in Shots :
            LET d  == shot(disk, path, s)
                t1 == [NewTick EXCEPT !.cur = path]
            IN  IF is_first(previous_screenshot)
                THEN EndTick(seed(previous_screenshot, d, path), task,
                             [t1 EXCEPT !.outcome = "seeded"])
                ELSE LET m  == detect_motion(d, previous_screenshot, path,
                                             PIXEL_DIFF_THRESHOLD)
                         t2 == [t1 EXCEPT !.calls = Append(@, "detect_motion")]
                     IN  IF m.exc # ""
                         THEN Raised(m.exc, d, path,
                                     [t2 EXCEPT !.motion = "raised",
                                                !.unreadable =
                                                   {q \in {previous_screenshot, path} :
                                                      imread(d, q) = 0},
                                                !.failed = "load",
                                                !.cause = m.exc])
                         ELSE IF m.ret
                         THEN /\ disk' = d
                              /\ pc' = "fetching"
                              /\ current_screenshot' = path
                              /\ tick' = [t2 EXCEPT !.motion = "true",
                                                    !.calls = Append(@, "fetch_channel")]
                              /\ UNCHANGED << previous_screenshot, task >>
                         ELSE EndTick(rotate(previous_screenshot, d, path), task,
                                      [t2 EXCEPT !.motion = "false",
                                                 !.outcome = "rotated"])

\* The await of fetch_channel returns or raises (lines 116-139).
fetch_channel_returns ==
    /\ pc = "fetching"
    /\ UNCHANGED << overdue, comparison >>
    /\ \E outcome \in FetchOutcomes :
         IF fetch_raises(outcome) # ""
         THEN Raised(fetch_raises(outcome), disk, current_screenshot,
                     [tick EXCEPT !.failed = "resolve", !.cause = outcome])
         ELSE /\ pc' = "sending"
              /\ tick' = [tick EXCEPT !.calls = Append(@, "send"),
                                      !.sent = attachment(previous_screenshot,
                                                          current_screenshot)]
              /\ UNCHANGED << previous_screenshot, disk, task, current_screenshot >>

\* The await of channel.send returns or raises (lines 134-148).
send_returns ==
    /\ pc = "sending"
    /\ UNCHANGED << overdue, comparison >>
    /\ \E outcome \in SendOutcomes :
         IF send_raises(outcome) # ""
         THEN Raised(send_raises(outcome), disk, current_screenshot,
                     [tick EXCEPT !.failed = "deliver", !.cause = outcome])
         ELSE EndTick(rotate(previous_screenshot, disk, current_screenshot), task,
                      [tick EXCEPT !.delivered = TRUE, !.outcome = "rotated"])

\* client.run (line 174) ends: the loop task is cancelled where it is; a tick
\* suspended in an await gets CancelledError there, which no clause catches.
shutdown ==
    /\ task # "cancelled"
    /\ task' = "cancelled"
    /\ pc' = "idle"
    /\ current_screenshot' = None
    /\ tick' = IF pc = "idle" THEN tick
               ELSE [tick EXCEPT !.exc = "CancelledError", !.outcome = "cancelled"]
    /\ UNCHANGED << previous_screenshot, disk, overdue, comparison >>

Next ==
    \/ on_ready
    \/ interval_elapses
    \/ check_screen_change
    \/ fetch_channel_returns
    \/ send_returns
    \/ shutdown

Spec == Init /\ [][Next]_vars

\* ------------------------------------------------ detect_motion on its own
\* The pixel_diff_threshold values detect_motion is called with.
Thresholds == 0..MaxThreshold

\* Two files, each holding a small sample or bytes that do not decode, the
\* first of them retained as the baseline; the loop is not started.
PixInit ==
    /\ \E s1 \in SampleShots \cup {0}, s2 \in SampleShots \cup {0} :
          disk = shot(shot(<< >>, << "current_screen", 1, ".png" >>, s1),
                      << "current_screen", 2, ".png" >>, s2)
    /\ previous_screenshot = << "current_screen", 1, ".png" >>
    /\ current_screenshot = << "current_screen", 2, ".png" >>
    /\ task = "unstarted"
    /\ pc = "idle"
    /\ tick = [NewTick EXCEPT !.calls = << >>, !.outcome = "none"]
    /\ overdue = 0
    /\ comparison = NoComparison

\* One call detect_motion(previous_screenshot, current_screenshot, t), as at
\* lines 111-113, returning or raising.
detect_motion_call ==
    /\ \E t \in Thresholds :
          LET result == detect_motion(disk, previous_screenshot,
                                      current_screenshot, t)
          IN  comparison' = [state |-> "done",
                             image_path1 |-> previous_screenshot,
                             image_path2 |-> current_screenshot,
                             pixel_diff_threshold |-> t,
                             exc |-> result.exc, ret |-> result.ret]
    /\ disk' = detect_motion_files(disk, previous_screenshot, current_screenshot)
    /\ UNCHANGED << previous_screenshot, task, pc, current_screenshot, tick,
                    overdue >>

PixNext == detect_motion_call

PixSpec == PixInit /\ [][PixNext]_vars

\* ----------------------------------------------------------- properties
\* C1: a tick whose channel.send failed leaves previous_screenshot the
\* baseline P the tick started from (never the capture it tried to send), and
\* P's file still exists.
C1_BaselineKeptOnDeliveryFailure ==
    tick.failed = "deliver" =>
        /\ previous_screenshot = tick.prev0
        /\ previous_screenshot # tick.cur
        /\ exists(disk, tick.prev0)

C1_Witness ==
    /\ tick.failed = "deliver"
    /\ tick.prev0 # None
    /\ tick.motion = "true"
    /\ pc = "idle"

\* C2: between ticks the sample files that exist are none, or exactly the
\* file previous_screenshot names.
C2_OnlyBaselineRetained ==
    (pc = "idle" /\ task # "cancelled") =>
        \/ DOMAIN disk = {}
        \/ DOMAIN disk = {previous_screenshot}

\* C3: after a tick in which capture, loading, resolution or delivery failed
\* the loop task is still running, so that the timer starts a further tick.
C3_LoopSurvivesFailedTick ==
    (tick.failed # "" /\ task # "cancelled") => task = "running"

\* C4: a tick whose capture failed made no other call, left
\* previous_screenshot and the files as they were, and the loop is still
\* scheduled to capture again at the next tick.
C4_CaptureFailureSkipsTick ==
    tick.failed = "capture" =>
        /\ tick.calls = << "capture_screen" >>
        /\ tick.sent = None
        /\ previous_screenshot = tick.prev0
        /\ DOMAIN disk = tick.files0
        /\ task \in {"running", "cancelled"}

\* C5: a tick whose fetch_channel failed (not found, forbidden, transport
\* failure, or no channel) sent nothing, removed its capture's file, and left
\* previous_screenshot the baseline P with P's file in place, for the loop's
\* next tick to compare against.
C5_ResolutionFailureKeepsBaseline ==
    tick.failed = "resolve" =>
        /\ tick.sent = None
        /\ \A i \in 1..Len(tick.calls) : tick.calls[i] # "send"
        /\ ~exists(disk, tick.cur)
        /\ previous_screenshot = tick.prev0
        /\ exists(disk, tick.prev0)
        /\ task \in {"running", "cancelled"}

C5_Witness ==
    /\ tick.failed = "resolve"
    /\ tick.cause = "Forbidden"
    /\ tick.outcome = "handled"
    /\ pc = "idle"

\* C6: once a tick that captured a sample has ended in a load, resolution or
\* delivery failure, the file of its capture no longer exists.
C6_FailedTickReleasesCapture ==
    tick.failed \in {"load", "resolve", "deliver"} => ~exists(disk, tick.cur)

\* C7: a tick that starts with previous_screenshot = None and captures makes
\* the capture the baseline, keeps its file, and calls neither detect_motion
\* nor fetch_channel nor channel.send, whatever was captured.
C7_SeedingTick ==
    (tick.prev0 = None /\ tick.cur # None) =>
        /\ tick.outcome = "seeded"
        /\ pc = "idle"
        /\ previous_screenshot = tick.cur
        /\ exists(disk, tick.cur)
        /\ tick.calls = << "capture_screen" >>
        /\ tick.sent = None

C7_Witness ==
    /\ tick.prev0 = None
    /\ tick.outcome = "seeded"
    /\ exists(disk, tick.cur)
    /\ disk[tick.cur] = 0

\* C8: once previous_screenshot is set no step sets it back to None, unless
\* the step is the end of a tick that failed to load the retained sample.
C8_BaselineStaysPresent ==
    [][(previous_screenshot # None /\ previous_screenshot' = None) =>
          (tick'.failed = "load" /\ tick'.prev0 \in tick'.unreadable)]_vars

C8_Witness ==
    /\ tick.outcome \in {"handled", "escaped"}
    /\ tick.prev0 # None
    /\ previous_screenshot # None
    /\ pc = "idle"

\* C9: a tick in which detect_motion could not load a sample is handled; if
\* the retained sample was unreadable the baseline is discarded and
\* previous_screenshot is None again, otherwise only the capture is discarded
\* and previous_screenshot is unchanged.
C9_LoadFailurePolicy ==
    tick.failed = "load" =>
        /\ tick.outcome = "handled"
        /\ IF tick.prev0 \in tick.unreadable
           THEN previous_screenshot = None /\ ~exists(disk, tick.prev0)
           ELSE previous_screenshot = tick.prev0 /\ ~exists(disk, tick.cur)

\* C10: a tick in STEADY in which detect_motion returned false, or returned
\* true and the capture was sent, ends with the old baseline's file removed,
\* previous_screenshot the capture, and the capture's file in place.
C10_BaselineRotation ==
    (tick.motion = "false" \/ tick.delivered) =>
        /\ tick.prev0 # None
        /\ tick.outcome = "rotated"
        /\ pc = "idle"
        /\ ~exists(disk, tick.prev0)
        /\ previous_screenshot = tick.cur
        /\ previous_screenshot # None
        /\ exists(disk, tick.cur)

C10_Witness ==
    /\ tick.motion = "false"
    /\ tick.outcome = "rotated"
    /\ previous_screenshot = tick.cur
    /\ ~exists(disk, tick.prev0)

\* C11: a tick calls channel.send at most once, and only after it started
\* with a baseline, detect_motion returned true and fetch_channel returned a
\* channel; the file it uploads is its own capture, never the baseline.
C11_NotifyOnlyOnChange ==
    LET sends == {i \in 1..Len(tick.calls) : tick.calls[i] = "send"}
    IN  /\ Cardinality(sends) <= 1
        /\ (tick.sent # None) <=> (sends # {})
        /\ sends # {} =>
              /\ tick.prev0 # None
              /\ tick.motion = "true"
              /\ tick.calls = << "capture_screen", "detect_motion",
                                 "fetch_channel", "send" >>
              /\ tick.failed # "resolve"
              /\ tick.sent = tick.cur
              /\ tick.sent # tick.prev0

C11_Witness ==
    /\ tick.delivered
    /\ tick.sent = tick.cur
    /\ tick.motion = "true"

\* C12: no tick begins while another execution of check_screen_change is
\* suspended, and the iterations that fell due while a tick ran are dropped:
\* when the tick has returned at most the next iteration is due.
C12_NoOverlapNoBacklog ==
    /\ ~tick.overlap
    /\ pc = "idle" => overdue <= 1

\* C13: when the loop has been shut down, the last tick was not cut short by
\* the cancellation, and every sample file created since that tick began is
\* the one previous_screenshot names.
C13_CleanCancellation ==
    (task = "cancelled" /\ tick.outcome \notin {"handled", "escaped"}) =>
        /\ tick.exc # "CancelledError"
        /\ \A f \in DOMAIN disk \ tick.files0 : f = previous_screenshot

C15_DimensionMismatch ==
    (/\ comparison.state = "done"
     /\ imread(disk, comparison.image_path1) # 0
     /\ imread(disk, comparison.image_path2) # 0) =>
        LET gray1 == cvtColor(Pixels(imread(disk, comparison.image_path1)))
            gray2 == cvtColor(Pixels(imread(disk, comparison.image_path2)))
            gray2r == resized(gray1, gray2)
        IN  (gray1.h # gray2.h \/ gray1.w # gray2.w) =>
               /\ comparison.exc = ""
               /\ comparison.ret \in BOOLEAN
               /\ gray2r.h = gray1.h /\ gray2r.w = gray1.w
               /\ Len(gray2r.px) = gray1.h
               /\ \A r \in 1..gray1.h :
                     /\ Len(gray2r.px[r]) = gray1.w
                     /\ \A c \in 1..gray1.w : gray2r.px[r][c] \in 0..255

\* A wide sample compared with a tall one: a change is reported.
C15_Witness ==
    /\ comparison.state = "done"
    /\ comparison.exc = ""
    /\ comparison.ret = TRUE
    /\ imread(disk, comparison.image_path1) # 0
    /\ imread(disk, comparison.image_path2) # 0
    /\ LET image1 == Pixels(imread(disk, comparison.image_path1))
           image2 == Pixels(imread(disk, comparison.image_path2))
       IN  image1.w > image1.h /\ image2.h > image2.w

C17_BaselineFileKept ==
    /\ [](previous_screenshot # None => exists(disk, previous_screenshot))
    /\ [](current_screenshot # None => current_screenshot # previous_screenshot)
    /\ [][\A f \in DOMAIN disk \ DOMAIN disk' :
             \/ /\ f = previous_screenshot
                /\ previous_screenshot' = tick'.cur
                /\ previous_screenshot' # previous_screenshot
             \/ /\ f = tick'.cur
                /\ f # previous_screenshot
                /\ previous_screenshot' = previous_screenshot]_vars

C17_Witness ==
    /\ tick.outcome = "handled"
    /\ tick.failed = "resolve"
    /\ previous_screenshot # None
    /\ exists(disk, previous_screenshot)
    /\ ~exists(disk, tick.cur)

\* C18: the calls of a tick are an initial part of capture_screen,
\* detect_motion, fetch_channel, send; fetch_channel is called only after
\* detect_motion returned true and send only after fetch_channel returned a
\* channel; and in a tick that detected motion the baseline is replaced or its
\* file removed only by the step in which send returns.
C18_StepOrder ==
    /\ [](LET order == << "capture_screen", "detect_motion",
                          "fetch_channel", "send" >>
          IN  /\ Len(tick.calls) <= Len(order)
              /\ tick.calls = SubSeq(order, 1, Len(tick.calls))
              /\ Len(tick.calls) >= 3 => tick.motion = "true"
              /\ tick.motion \in {"false", "raised"} => Len(tick.calls) = 2
              /\ tick.failed = "resolve" => Len(tick.calls) = 3
              /\ tick.delivered => Len(tick.calls) = 4)
    /\ [][(/\ tick'.motion = "true"
           /\ \/ previous_screenshot' # previous_screenshot
              \/ (previous_screenshot # None
                    /\ ~exists(disk', previous_screenshot)))
          => (tick'.delivered /\ ~tick.delivered /\ pc = "sending")]_vars

C18_Witness ==
    /\ tick.delivered
    /\ tick.calls = << "capture_screen", "detect_motion", "fetch_channel", "send" >>
    /\ previous_screenshot = tick.cur

====
